---- MODULE Spec2Model ----
(***************************************************************************)
(* A model of parse_bpmn_xml (src/app.py): the extraction of processes,    *)
(* elements, sequence flows, lanes, data associations and annotations from *)
(* a BPMN document, the depth-first construction of flow_order, and the    *)
(* two structural warnings.                                                *)
(*                                                                         *)
(* An ordered Python dict is a sequence of records keyed by their id       *)
(* field; a document is the tree ET.fromstring would build, reduced to the *)
(* tags and attributes the function reads.                                 *)
(***************************************************************************)
EXTENDS Naturals, Sequences, FiniteSets, TLC

VARIABLES
    doc,           \* the input document (the tree of a well-formed one)
    pc,            \* "idle", then the position in parse_bpmn_xml: "start", "traverse", "done"
    result,        \* the result dict under construction, then the returned dict
    status,        \* the returned status code, 0 before the return
    start_events,  \* the list of line 251
    next_root,     \* position of the loop of line 290 in start_events
    visited,       \* the set of line 255
    flow_order,    \* the list of line 256
    stack,         \* the active calls of traverse_flow, innermost last
    root_calls,    \* history: ids emitted by a call made from line 291
    set_order,     \* the iteration orders of the sets this interpreter has listed
    calls,         \* number of calls of parse_bpmn_xml started
    first_call     \* what the first call returned

vars == <<doc, pc, result, status, start_events, next_root, visited, flow_order,
          stack, root_calls, set_order, calls, first_call>>

(***************************************************************************)
(* Bounds of the input space.                                              *)
(***************************************************************************)
MaxFlows == 2
MaxProcs == 2

None == "None"
GraphIds == <<"a", "b", "c">>
AllFlowIds == <<"f1", "f2", "f3", "f4", "f5">>
AllProcIds == <<"P1", "P2", "P3", "P4">>
Ids == {GraphIds[i] : i \in DOMAIN GraphIds}

(***************************************************************************)
(* Sequence helpers.                                                       *)
(***************************************************************************)
Range(s) == {s[i] : i \in DOMAIN s}

RECURSIVE Concat(_)
Concat(ss) == IF ss = <<>> THEN <<>> ELSE Head(ss) \o Concat(Tail(ss))

Orders(S) == {s \in [1..Cardinality(S) -> S] : \A i, j \in DOMAIN s : i # j => s[i] # s[j]}

(***************************************************************************)
(* Ordered dicts: result['elements'], result['flows'], result['lanes'].    *)
(***************************************************************************)
Keys(d) == {d[i].id : i \in DOMAIN d}
HasKey(d, k) == \E i \in DOMAIN d : d[i].id = k
Get(d, k) == d[CHOOSE i \in DOMAIN d : d[i].id = k]
Index(d, k) == CHOOSE i \in DOMAIN d : d[i].id = k

\* d[e.id] = e for every e of es in turn: a new key goes last, an existing key
\* keeps its position and takes the last value written.
PutAll(d, es) ==
    LET all == d \o es
        first == {i \in DOMAIN all : \A j \in 1..(i - 1) : all[j].id # all[i].id}
        nth(k) == CHOOSE i \in first : Cardinality({j \in first : j < i}) = k - 1
        last(i) == CHOOSE j \in DOMAIN all :
                       /\ all[j].id = all[i].id
                       /\ \A m \in DOMAIN all : all[m].id = all[i].id => m <= j
    IN  [k \in 1..Cardinality(first) |-> all[last(nth(k))]]

(***************************************************************************)
(* Namespaces and tag lookup.                                              *)
(***************************************************************************)
MODEL_URI == "http://www.omg.org/spec/BPMN/20100524/MODEL"

NS == [bpmn |-> MODEL_URI, bpmn2 |-> MODEL_URI]

\* node.findall('<prefix>:<tag>', NS) over the MODEL-namespaced nodes of one tag
findall(prefix, nodes) == IF NS[prefix] = MODEL_URI THEN nodes ELSE <<>>

\* findall('bpmn:X', NS) + findall('bpmn2:X', NS)
findall_both(nodes) == findall("bpmn", nodes) \o findall("bpmn2", nodes)

WithTag(nodes, tag) == SelectSeq(nodes, LAMBDA n : n.tag = tag)

element_types == <<"startEvent", "endEvent", "task">>


(***************************************************************************)
(* Process selection.                                                      *)
(***************************************************************************)
Lower(s) == IF s = "TRUE" THEN "true" ELSE s

Attr(v, default) == IF v = None THEN default ELSE v

all_processes(d) == findall_both(d.procs)

is_executable(proc) == Lower(Attr(proc.isExecutable, "false")) = "true"

has_elements(proc) ==
    \E t \in DOMAIN element_types :
        \/ findall("bpmn", WithTag(proc.nodes, element_types[t])) # <<>>
        \/ findall("bpmn2", WithTag(proc.nodes, element_types[t])) # <<>>

unfiltered_processes(d) == all_processes(d)

valid_processes(d) ==
    SelectSeq(all_processes(d), LAMBDA proc : is_executable(proc) \/ has_elements(proc))

(***************************************************************************)
(* Structural extraction from one process.                                 *)
(***************************************************************************)
LanesOf(lane) ==
    LET refs == SelectSeq(findall_both(lane.refs), LAMBDA node_id : node_id # "")
    IN  [k \in DOMAIN refs |-> [id |-> refs[k], name |-> Attr(lane.name, "Unnamed Lane")]]

LaneSetEntries(lane_set) ==
    LET ls == findall_both(lane_set)
    IN  Concat([j \in DOMAIN ls |-> LanesOf(ls[j])])

LaneEntries(process) ==
    LET sets == findall_both(process.laneSets)
    IN  Concat([i \in DOMAIN sets |-> LaneSetEntries(sets[i])])

ElementsOfType(process, elem_type) ==
    LET found == SelectSeq(findall_both(WithTag(process.nodes, elem_type)),
                           LAMBDA elem : elem.id # None)
    IN  [k \in DOMAIN found |->
            [id |-> found[k].id, type |-> elem_type, process |-> process.id]]

ElementEntries(process) ==
    Concat([t \in DOMAIN element_types |-> ElementsOfType(process, element_types[t])])

FlowEntries(process) ==
    LET found == SelectSeq(findall_both(process.flows), LAMBDA flow : flow.id # None)
    IN  [k \in DOMAIN found |->
            [id |-> found[k].id, source |-> found[k].sourceRef,
             target |-> found[k].targetRef, condition |-> found[k].condition,
             process |-> process.id]]

InputAssociations(task_elem) ==
    LET found == SelectSeq(findall_both(task_elem.inputs), LAMBDA a : a.sourceRef # "")
    IN  [k \in DOMAIN found |->
            [type |-> "input", from |-> found[k].sourceRef, to |-> task_elem.id,
             other |-> found[k].targetRef]]

OutputAssociations(task_elem) ==
    LET found == SelectSeq(findall_both(task_elem.outputs), LAMBDA a : a.targetRef # "")
    IN  [k \in DOMAIN found |->
            [type |-> "output", from |-> task_elem.id, to |-> found[k].targetRef,
             other |-> found[k].sourceRef]]

\* process.findall('.//*[@id]') is one lookup: the owners are not repeated.
AssociationEntries(process) ==
    Concat([i \in DOMAIN process.owners |->
               InputAssociations(process.owners[i]) \o OutputAssociations(process.owners[i])])

AnnotationEntries(process) ==
    LET found == SelectSeq(findall_both(process.annotations), LAMBDA a : a.text # "")
    IN  [k \in DOMAIN found |->
            [id |-> found[k].id, text |-> found[k].text, associated_element |-> None]]

\* The loop over the valid processes: every list is appended to and every dict
\* is written in process order.
Extracted(d) ==
    LET processes == valid_processes(d)
    IN  [processes |-> [proc_idx \in DOMAIN processes |->
                          [id |-> processes[proc_idx].id, name |-> <<"Process", proc_idx>>]],
         lanes |-> PutAll(<<>>, Concat([i \in DOMAIN processes |-> LaneEntries(processes[i])])),
         elements |-> PutAll(<<>>, Concat([i \in DOMAIN processes |-> ElementEntries(processes[i])])),
         flows |-> PutAll(<<>>, Concat([i \in DOMAIN processes |-> FlowEntries(processes[i])])),
         data_associations |-> Concat([i \in DOMAIN processes |-> AssociationEntries(processes[i])]),
         annotations |-> Concat([i \in DOMAIN processes |-> AnnotationEntries(processes[i])]),
         flow_order |-> <<>>,
         warnings |-> <<>>]

StartEvents(elements) ==
    LET found == SelectSeq(elements, LAMBDA elem : elem.type = "startEvent")
    IN  [k \in DOMAIN found |-> found[k].id]


(***************************************************************************)
(* traverse_flow.                                                          *)
(***************************************************************************)
DefaultPath == <<>>

StopsUnlessAbsent(elem_id, vis, elements) == ~HasKey(elements, elem_id)

Stops(elem_id, vis, elements) == elem_id \in vis \/ ~HasKey(elements, elem_id)

MarkNothing(vis, elem_id) == vis

MarkVisited(vis, elem_id) == vis \cup {elem_id}

Actor(lanes, elem_id) == IF HasKey(lanes, elem_id) THEN Get(lanes, elem_id).name ELSE "N/A"

FlowEntry(elem_id, path, res) ==
    [id |-> elem_id, type |-> Get(res.elements, elem_id).type,
     actor |-> Actor(res.lanes, elem_id), path |-> path]

OutgoingFirst(flows, elem_id) ==
    LET found == SelectSeq(flows, LAMBDA flow : flow.source = elem_id)
    IN  IF found = <<>> THEN <<>> ELSE <<found[1].id>>

OutgoingReversed(flows, elem_id) ==
    LET found == SelectSeq(flows, LAMBDA flow : flow.source = elem_id)
    IN  [k \in DOMAIN found |-> found[Len(found) + 1 - k].id]

Outgoing(flows, elem_id) ==
    LET found == SelectSeq(flows, LAMBDA flow : flow.source = elem_id)
    IN  [k \in DOMAIN found |-> found[k].id]

NewPathLastOnly(path, flow_id) == <<flow_id>>

NewPathInFront(path, flow_id) == <<flow_id>> \o path

NewPath(path, flow_id) == path \o <<flow_id>>

\* One call traverse_flow(elem_id, path) made with the calls of `rest` active:
\* it returns at once, or marks, emits and becomes the innermost active call.
traverse_flow(elem_id, path, rest) ==
    IF Stops(elem_id, visited, result.elements)
    THEN /\ stack' = rest
         /\ UNCHANGED <<visited, flow_order>>
    ELSE /\ visited' = MarkVisited(visited, elem_id)
         /\ flow_order' = Append(flow_order, FlowEntry(elem_id, path, result))
         /\ stack' = Append(rest, [elem_id |-> elem_id, path |-> path,
                                   outgoing |-> Outgoing(result.flows, elem_id)])

(***************************************************************************)
(* Warnings.                                                               *)
(***************************************************************************)
ConnectedSources(flows) == {flows[i].source : i \in DOMAIN flows}

Connected(flows) ==
    {flows[i].source : i \in DOMAIN flows} \cup {flows[i].target : i \in DOMAIN flows}

Disconnected(res) == Keys(res.elements) \ Connected(res.flows)

Unassigned(res) == Keys(res.elements) \ Keys(res.lanes)

\* list(s) of a set of strings: the order is the one the interpreter's string
\* hashing gives; one interpreter lists one set one way.
ListOrders(s, known) ==
    IF \E l \in known : Range(l) = s
    THEN {l \in known : Range(l) = s}
    ELSE Orders(s)

Warning(type, elems) ==
    IF elems = <<>> THEN <<>>
    ELSE <<[type |-> type, count |-> Len(elems), elements |-> elems]>>

(***************************************************************************)
(* The operations.                                                         *)
(***************************************************************************)
Return(res, code) ==
    /\ result' = res
    /\ status' = code
    /\ pc' = "done"

NoTraversal == UNCHANGED <<start_events, next_root, visited, flow_order, stack, root_calls>>

ParseError ==
    /\ pc = "start"
    /\ ~doc.wellformed
    /\ Return([error |-> "XML parsing error"], 400)
    /\ NoTraversal
    /\ UNCHANGED <<doc, set_order, calls, first_call>>

NoProcess ==
    /\ pc = "start"
    /\ doc.wellformed
    /\ all_processes(doc) = <<>>
    /\ Return([error |-> "No BPMN process found in XML"], 400)
    /\ NoTraversal
    /\ UNCHANGED <<doc, set_order, calls, first_call>>

NoValidProcess ==
    /\ pc = "start"
    /\ doc.wellformed
    /\ all_processes(doc) # <<>>
    /\ valid_processes(doc) = <<>>
    /\ Return([error |-> "No valid BPMN process with content found in XML"], 400)
    /\ NoTraversal
    /\ UNCHANGED <<doc, set_order, calls, first_call>>

Extract ==
    /\ pc = "start"
    /\ doc.wellformed
    /\ valid_processes(doc) # <<>>
    /\ LET res == Extracted(doc)
       IN  /\ result' = res
           /\ start_events' = StartEvents(res.elements)
    /\ next_root' = 1
    /\ visited' = {}
    /\ flow_order' = <<>>
    /\ stack' = <<>>
    /\ root_calls' = {}
    /\ pc' = "traverse"
    /\ UNCHANGED <<doc, status, set_order, calls, first_call>>

CallRoot ==
    /\ pc = "traverse"
    /\ stack = <<>>
    /\ next_root <= Len(start_events)
    /\ traverse_flow(start_events[next_root], DefaultPath, <<>>)
    /\ next_root' = next_root + 1
    /\ root_calls' = IF Stops(start_events[next_root], visited, result.elements)
                     THEN root_calls
                     ELSE root_calls \cup {start_events[next_root]}
    /\ UNCHANGED <<doc, pc, result, status, start_events, set_order, calls, first_call>>

CallOutgoing ==
    /\ pc = "traverse"
    /\ stack # <<>>
    /\ LET top == stack[Len(stack)]
       IN  /\ top.outgoing # <<>>
           /\ LET flow_id == Head(top.outgoing)
                  target == Get(result.flows, flow_id).target
                  new_path == NewPath(top.path, flow_id)
                  rest == [stack EXCEPT ![Len(stack)].outgoing = Tail(top.outgoing)]
              IN  traverse_flow(target, new_path, rest)
    /\ UNCHANGED <<doc, pc, result, status, start_events, next_root, root_calls,
                   set_order, calls, first_call>>

ReturnCall ==
    /\ pc = "traverse"
    /\ stack # <<>>
    /\ stack[Len(stack)].outgoing = <<>>
    /\ stack' = SubSeq(stack, 1, Len(stack) - 1)
    /\ UNCHANGED <<doc, pc, result, status, start_events, next_root, visited,
                   flow_order, root_calls, set_order, calls, first_call>>

Finish ==
    /\ pc = "traverse"
    /\ stack = <<>>
    /\ next_root > Len(start_events)
    /\ \E dl \in ListOrders(Disconnected(result), set_order) :
         \E ul \in ListOrders(Unassigned(result), set_order) :
            /\ Range(dl) = Range(ul) => dl = ul
            /\ set_order' = set_order \cup ({dl, ul} \ {<<>>})
            /\ Return([result EXCEPT
                          !.flow_order = IF start_events # <<>> THEN flow_order ELSE @,
                          !.warnings = Warning("disconnected_elements", dl)
                                       \o Warning("unassigned_lanes", ul)],
                      200)
    /\ UNCHANGED <<doc, start_events, next_root, visited, flow_order, stack,
                   root_calls, calls, first_call>>


\* The second call of parse_bpmn_xml, on the same document.
CallAgain ==
    /\ pc = "done"
    /\ calls = 1
    /\ calls' = calls + 1
    /\ first_call' = [result |-> result, status |-> status]
    /\ pc' = "start"
    /\ result' = <<>>
    /\ status' = 0
    /\ start_events' = <<>>
    /\ next_root' = 1
    /\ visited' = {}
    /\ flow_order' = <<>>
    /\ stack' = <<>>
    /\ root_calls' = {}
    /\ UNCHANGED <<doc, set_order>>

\* The service is restarted between two calls: a new interpreter, whose string
\* hashing is seeded anew.
Restart ==
    /\ pc = "done"
    /\ calls = 1
    /\ set_order # {}
    /\ set_order' = {}
    /\ UNCHANGED <<doc, pc, result, status, start_events, next_root, visited,
                   flow_order, stack, root_calls, calls, first_call>>

(***************************************************************************)
(* Input documents.                                                        *)
(***************************************************************************)
Node(tag, id) == [tag |-> tag, id |-> id]

Flow(id, source, target, condition) ==
    [id |-> id, sourceRef |-> source, targetRef |-> target, condition |-> condition]

Lane(name, refs) == [name |-> name, refs |-> refs]

Process(id, executable, nodes, flows, laneSets, owners, annotations) ==
    [id |-> id, isExecutable |-> executable, nodes |-> nodes, flows |-> flows,
     laneSets |-> laneSets, owners |-> owners, annotations |-> annotations]

Document(wellformed, procs) == [wellformed |-> wellformed, procs |-> procs]

\* Graph documents: one process, one node per id of GraphIds, each a start
\* event with its id, another node with its id (a task, or an end event in the
\* last place) or a task without an id attribute; up to MaxFlows sequence
\* flows between any two ids.
NodeShapes == {"start", "other", "anonymous"}

NodeOf(i, shape) ==
    IF shape = "start" THEN [tag |-> "startEvent", id |-> GraphIds[i]]
    ELSE IF shape = "anonymous" THEN [tag |-> "task", id |-> None]
    ELSE [tag |-> IF i = Len(GraphIds) THEN "endEvent" ELSE "task", id |-> GraphIds[i]]

NodeSeqs ==
    {[i \in DOMAIN GraphIds |-> NodeOf(i, k[i])] : k \in [DOMAIN GraphIds -> NodeShapes]}

FlowSeqs ==
    UNION {{[i \in 1..n |-> Flow(AllFlowIds[i], e[i][1], e[i][2], "")] :
               e \in [1..n -> Ids \X Ids]} : n \in 0..MaxFlows}

GraphLanes == <<<<Lane("L1", <<"a", "b">>)>>>>

GraphDocs ==
    {Document(TRUE, <<Process("P1", None, ns, fs, GraphLanes, <<>>, <<>>)>>) :
        ns \in NodeSeqs, fs \in FlowSeqs}

\* Scenario documents: a four-element chain whose flows are written in reverse
\* order, two start events with disjoint tasks, a diamond with guarded flows
\* and a loop back to a gateway.
ChainDoc ==
    Document(TRUE, <<Process("P1", "true",
        <<Node("task", "b"), Node("endEvent", "d"), Node("startEvent", "a"), Node("task", "c")>>,
        <<Flow("f3", "c", "d", ""), Flow("f2", "b", "c", ""), Flow("f1", "a", "b", "")>>,
        <<>>, <<>>, <<>>)>>)

TwoRootsDoc ==
    Document(TRUE, <<Process("P1", "true",
        <<Node("startEvent", "a"), Node("task", "c"), Node("startEvent", "b"), Node("task", "d")>>,
        <<Flow("f1", "b", "d", ""), Flow("f2", "a", "c", "")>>,
        <<<<Lane(None, <<"a", "c">>), Lane("L2", <<"b", "", "c">>)>>>>, <<>>, <<>>)>>)

DiamondDoc ==
    Document(TRUE, <<Process("P1", None,
        <<Node("startEvent", "a"), Node("task", "b"), Node("task", "c"), Node("endEvent", "d")>>,
        <<Flow("f1", "a", "b", "x > 1"), Flow("f2", "a", "c", ""),
          Flow("f3", "b", "d", ""), Flow("f4", "c", "d", "x < 1")>>,
        <<>>, <<>>, <<>>)>>)

LoopDoc ==
    Document(TRUE, <<Process("P1", None,
        <<Node("startEvent", "a"), Node("task", "b"), Node("task", "c"), Node("endEvent", "d")>>,
        <<Flow("f1", "a", "b", ""), Flow("f2", "b", "c", ""),
          Flow("f3", "c", "b", "again"), Flow("f4", "c", "d", ""), Flow(None, "a", "d", "")>>,
        <<>>, <<>>, <<>>)>>)

ScenarioDocs == {ChainDoc, TwoRootsDoc, DiamondDoc, LoopDoc}

\* Structure documents: malformed or well-formed, up to MaxProcs processes,
\* each executable or not and with one of a few bodies.
Executables == {None, "true", "TRUE"}

EmptyBody == [nodes |-> <<>>, flows |-> <<>>, laneSets |-> <<>>, owners |-> <<>>,
              annotations |-> <<>>]

DecorBody ==
    [nodes |-> <<>>,
     flows |-> <<Flow("f1", "a", "b", "")>>,
     laneSets |-> <<<<Lane("L1", <<"a">>)>>>>,
     owners |-> <<>>,
     annotations |-> <<[id |-> "n1", text |-> "header"]>>]

SmallBody ==
    [nodes |-> <<Node("task", "b"), Node("startEvent", "a"), Node("task", "c")>>,
     flows |-> <<Flow("f1", "a", "b", "")>>,
     laneSets |-> <<<<Lane("L1", <<"a">>)>>>>,
     owners |-> <<>>,
     annotations |-> <<>>]

RichBody ==
    [nodes |-> <<Node("startEvent", "a"), Node("task", "b"), Node("endEvent", "c")>>,
     flows |-> <<Flow("f1", "a", "b", ""), Flow("f2", "b", "c", "ok")>>,
     laneSets |-> <<<<Lane("L1", <<"a", "b">>), Lane("L2", <<"b", "c">>)>>>>,
     owners |-> <<[id |-> "b", inputs |-> <<[sourceRef |-> "ds", targetRef |-> "in"]>>,
                   outputs |-> <<[sourceRef |-> "", targetRef |-> "ds"],
                                 [sourceRef |-> "out", targetRef |-> ""]>>],
                  [id |-> "c", inputs |-> <<[sourceRef |-> "", targetRef |-> "in"]>>,
                   outputs |-> <<>>]>>,
     annotations |-> <<[id |-> "n1", text |-> "note"], [id |-> "n2", text |-> ""]>>]

Bodies == {EmptyBody, DecorBody, SmallBody, RichBody}

StructProcSeqs ==
    UNION {{[i \in 1..n |->
                Process(AllProcIds[i], c[i][1], c[i][2].nodes, c[i][2].flows, c[i][2].laneSets,
                        c[i][2].owners, c[i][2].annotations)] :
               c \in [1..n -> Executables \X Bodies]} : n \in 0..MaxProcs}

StructDocs == {Document(w, ps) : w \in BOOLEAN, ps \in StructProcSeqs}

Docs == GraphDocs \cup ScenarioDocs \cup StructDocs

(***************************************************************************)
(* Specifications.                                                         *)
(***************************************************************************)
NoDocument == Document(FALSE, <<>>)

Init ==
    /\ doc = NoDocument
    /\ pc = "idle"
    /\ result = <<>>
    /\ status = 0
    /\ start_events = <<>>
    /\ next_root = 1
    /\ visited = {}
    /\ flow_order = <<>>
    /\ stack = <<>>
    /\ root_calls = {}
    /\ set_order = {}
    /\ calls = 1
    /\ first_call = <<>>

\* parse_bpmn_xml(xml_content) is called with a document.
Call ==
    /\ pc = "idle"
    /\ doc' \in Docs
    /\ pc' = "start"
    /\ UNCHANGED <<result, status, start_events, next_root, visited, flow_order,
                   stack, root_calls, set_order, calls, first_call>>

Next ==
    \/ Call
    \/ ParseError
    \/ NoProcess
    \/ NoValidProcess
    \/ Extract
    \/ CallRoot
    \/ CallOutgoing
    \/ ReturnCall
    \/ Finish

Spec == Init /\ [][Next]_vars


NextTwice ==
    \/ Next
    \/ CallAgain

\* Two calls served by one interpreter.
SpecTwice == Init /\ [][NextTwice]_vars

NextRestart ==
    \/ NextTwice
    \/ Restart

\* Two calls, the service possibly restarted in between.
SpecRestart == Init /\ [][NextRestart]_vars


Traverse == CallRoot \/ CallOutgoing \/ ReturnCall

\* parse_bpmn_xml is sequential code: once the traversal has started, the next
\* call or return of traverse_flow, and then the rest of the function, is run.
SpecLive == Init /\ [][Next]_vars /\ WF_vars(Traverse) /\ WF_vars(Finish)

(***************************************************************************)
(* Properties.                                                             *)
(***************************************************************************)
Success == pc = "done" /\ status = 200

EntryIds(order) == {order[i].id : i \in DOMAIN order}

NoRepeat(order) == \A i, j \in DOMAIN order : i # j => order[i].id # order[j].id

PosOf(order, id) == CHOOSE i \in DOMAIN order : order[i].id = id

\* C1: each element id occurs at most once in flow_order, while it is built and
\* in the result returned, whatever the start events, cycles and converging flows.
C1_UniqueIds ==
    /\ NoRepeat(flow_order)
    /\ Success => NoRepeat(result.flow_order)

\* Two flows from emitted elements converge on one emitted element.
C1_Witness ==
    /\ Success
    /\ \E i, j \in DOMAIN result.flows :
         /\ i # j
         /\ result.flows[i].target = result.flows[j].target
         /\ result.flows[i].source # result.flows[j].source
         /\ {result.flows[i].source, result.flows[j].source, result.flows[i].target}
                \subseteq EntryIds(result.flow_order)

RECURSIVE PendingWork(_)
PendingWork(frames) ==
    IF frames = <<>> THEN 0
    ELSE Len(Head(frames).outgoing) + 1 + PendingWork(Tail(frames))

\* What is left to do: unvisited elements weigh more than any call they start.
Measure ==
    (Len(result.flows) + 2) * Cardinality(Keys(result.elements) \ visited)
    + (Len(start_events) + 1 - next_root) + PendingWork(stack)

TraversalStep ==
    (pc = "traverse" /\ pc' = "traverse") =>
        /\ Measure' < Measure
        /\ \/ visited' = visited /\ flow_order' = flow_order /\ Len(stack') <= Len(stack)
           \/ /\ Len(stack') = Len(stack) + 1
              /\ LET id == stack'[Len(stack')].elem_id
                 IN  /\ id \notin visited
                     /\ visited' = visited \cup {id}
                     /\ Len(flow_order') = Len(flow_order) + 1
                     /\ flow_order'[Len(flow_order')].id = id
                     /\ SubSeq(flow_order', 1, Len(flow_order)) = flow_order

\* C2: the traversal terminates on every graph: each call of traverse_flow
\* returns at once without an entry or adds one new id to visited and emits
\* its one entry, the work left strictly decreases, and the call returns.
C2_Terminates == [][TraversalStep]_vars /\ (pc = "traverse" ~> pc = "done")

\* A flow leads back to an element emitted no later than its source.
C2_Witness ==
    /\ Success
    /\ \E i \in DOMAIN result.flows :
         LET f == result.flows[i]
         IN  /\ {f.source, f.target} \subseteq EntryIds(result.flow_order)
             /\ PosOf(result.flow_order, f.target) <= PosOf(result.flow_order, f.source)


TypeOf(elements, id) == Get(elements, id).type

\* c lists every element once, runs from the one start event over intermediate
\* nodes to the one end event, and the flows are exactly one per hop.
IsChain(c, elements, flows) ==
    /\ Len(c) >= 2
    /\ Len(flows) = Len(c) - 1
    /\ TypeOf(elements, c[1]) = "startEvent"
    /\ TypeOf(elements, c[Len(c)]) = "endEvent"
    /\ \A k \in 2..(Len(c) - 1) : TypeOf(elements, c[k]) \notin {"startEvent", "endEvent"}
    /\ \A k \in 1..(Len(c) - 1) :
         \E i \in DOMAIN flows : flows[i].source = c[k] /\ flows[i].target = c[k + 1]

Hop(flows, from, to) ==
    flows[CHOOSE i \in DOMAIN flows : flows[i].source = from /\ flows[i].target = to].id

ChainOrder(c, res) ==
    /\ Len(res.flow_order) = Len(c)
    /\ \A k \in DOMAIN c : res.flow_order[k].id = c[k]
    /\ res.flow_order[1].path = <<>>
    /\ \A k \in 1..(Len(c) - 1) :
         res.flow_order[k + 1].path
             = res.flow_order[k].path \o <<Hop(res.flows, c[k], c[k + 1])>>

\* C3: for a linear chain of N elements joined by N-1 flows, flow_order has the
\* N elements in chain order, the first path is empty and each next path is the
\* previous one with the joining flow appended.
C3_LinearChain ==
    Success =>
        \A c \in Orders(Keys(result.elements)) :
            IsChain(c, result.elements, result.flows) => ChainOrder(c, result)

\* A chain of four elements has been traversed.
C3_Witness ==
    /\ Success
    /\ \E c \in Orders(Keys(result.elements)) :
         Len(c) = 4 /\ IsChain(c, result.elements, result.flows)

WarningsOfType(res, type) == SelectSeq(res.warnings, LAMBDA w : w.type = type)

NeverInFlow(res) ==
    {id \in Keys(res.elements) :
        \A i \in DOMAIN res.flows : res.flows[i].source # id /\ res.flows[i].target # id}

NoLane(res) ==
    {id \in Keys(res.elements) : \A i \in DOMAIN res.lanes : res.lanes[i].id # id}

WarnsExactly(res, type, S) ==
    LET ws == WarningsOfType(res, type)
    IN  /\ Len(ws) = IF S = {} THEN 0 ELSE 1
        /\ \A k \in DOMAIN ws :
             /\ Range(ws[k].elements) = S
             /\ Len(ws[k].elements) = Cardinality(S)
             /\ ws[k].count = Cardinality(S)

\* C5: in a successful result each warning is present iff its set is
\* non-empty, at most once, and lists exactly that set: the elements in no flow
\* for disconnected_elements, the elements without a lane for unassigned_lanes.
C5_Warnings ==
    Success =>
        /\ WarnsExactly(result, "disconnected_elements", NeverInFlow(result))
        /\ WarnsExactly(result, "unassigned_lanes", NoLane(result))
        /\ \A k \in DOMAIN result.warnings :
             result.warnings[k].type \in {"disconnected_elements", "unassigned_lanes"}

\* Both warnings are returned, for different sets, next to connected elements
\* and elements with a lane.
C5_Witness ==
    /\ Success
    /\ Len(result.warnings) = 2
    /\ NeverInFlow(result) # NoLane(result)
    /\ NeverInFlow(result) # Keys(result.elements)
    /\ NoLane(result) # Keys(result.elements)

Executable(proc) == proc.isExecutable \in {"true", "TRUE"}

HasFlowNode(proc) == \E i \in DOMAIN proc.nodes : proc.nodes[i].tag \in Range(element_types)

NoValidProcessIn(d) == \A i \in DOMAIN d.procs : ~Executable(d.procs[i]) /\ ~HasFlowNode(d.procs[i])

OnlyError == pc = "done" => status = 400 /\ DOMAIN result = {"error"}

NothingExtracted ==
    /\ pc \in {"idle", "start", "done"}
    /\ pc # "done" => result = <<>>
    /\ start_events = <<>> /\ visited = {} /\ flow_order = <<>> /\ stack = <<>>

\* C7: malformed XML and a document without a valid process return only an
\* error with status 400 and no structural field, no extraction having run; a
\* result with status 200 carries no error.
C7_ShortCircuit ==
    /\ (pc # "idle" /\ (~doc.wellformed \/ NoValidProcessIn(doc))) =>
           OnlyError /\ NothingExtracted
    /\ status = 400 => DOMAIN result = {"error"}
    /\ status = 200 => "error" \notin DOMAIN result /\ "flow_order" \in DOMAIN result
    /\ pc = "done" => status \in {200, 400}

\* A well-formed document whose processes have flows and annotations but no
\* recognised flow node and no executable flag has been refused.
C7_Witness ==
    /\ pc = "done"
    /\ status = 400
    /\ doc.wellformed
    /\ \E i \in DOMAIN doc.procs :
         doc.procs[i].flows # <<>> /\ doc.procs[i].annotations # <<>>

\* A malformed document that holds a process with content has been refused.
C7_WitnessMalformed ==
    /\ pc = "done"
    /\ ~doc.wellformed
    /\ \E i \in DOMAIN doc.procs : HasFlowNode(doc.procs[i])


RootEntry(order, i) ==
    LET before == {j \in 1..i : order[j].path = <<>>}
    IN  IF before = {} THEN 0 ELSE CHOOSE j \in before : \A m \in before : m <= j

Source(res, flow_id) == Get(res.flows, flow_id).source

Target(res, flow_id) == Get(res.flows, flow_id).target

\* The path of entry i is a chain of flows from the root of its segment to it.
PathIsChain(order, i, res) ==
    LET p == order[i].path
    IN  /\ \A k \in DOMAIN p : HasKey(res.flows, p[k])
        /\ RootEntry(order, i) > 0
        /\ Source(res, p[1]) = order[RootEntry(order, i)].id
        /\ \A k \in 1..(Len(p) - 1) : Target(res, p[k]) = Source(res, p[k + 1])
        /\ Target(res, p[Len(p)]) = order[i].id

PathsFromRoots(order, res) ==
    /\ \A i \in DOMAIN order :
         /\ order[i].path = <<>> <=> order[i].id \in root_calls
         /\ order[i].path = <<>> => order[i].type = "startEvent"
         /\ order[i].path # <<>> => PathIsChain(order, i, res)
    /\ order # <<>> => order[1].path = <<>>
    /\ \A i, j \in DOMAIN order :
         RootEntry(order, i) # RootEntry(order, j) =>
             Range(order[i].path) \cap Range(order[j].path) = {}

\* C4: every path is the chain of flows from the root under which the entry
\* was first visited: empty exactly for an entry emitted as a root, otherwise
\* starting at that root and ending at the entry; flow_order is one segment
\* per root, and no path of one segment holds a flow of another; on the first
\* and on the second call.
C4_Paths ==
    /\ pc = "traverse" => PathsFromRoots(flow_order, result)
    /\ Success => PathsFromRoots(result.flow_order, result)

\* The second call has returned two segments, each a root and its own task.
C4_Witness ==
    /\ Success
    /\ calls = 2
    /\ Len(result.flow_order) = 4
    /\ result.flow_order[1].path = <<>> /\ Len(result.flow_order[2].path) = 1
    /\ result.flow_order[3].path = <<>> /\ Len(result.flow_order[4].path) = 1

\* C6: the second call on the same document returns what the first returned,
\* the order of every list included.
C6_SameOutput ==
    (calls = 2 /\ pc = "done") => first_call = [result |-> result, status |-> status]

Starts(res) == {id \in Keys(res.elements) : TypeOf(res.elements, id) = "startEvent"}

RECURSIVE ReachFrom(_, _)
ReachFrom(S, res) ==
    LET step == {res.flows[i].target : i \in {j \in DOMAIN res.flows : res.flows[j].source \in S}}
        next == S \cup (step \cap Keys(res.elements))
    IN  IF next = S THEN S ELSE ReachFrom(next, res)

\* C8: flow_order holds exactly the elements reachable from a start event over
\* flows between extracted elements; a flow to or from an id that is no element
\* emits nothing, fails nothing and warns of nothing; without a start event
\* flow_order is empty and the call still succeeds.
C8_Reachable ==
    pc = "done" =>
        /\ (doc.wellformed /\ ~NoValidProcessIn(doc)) => status = 200
        /\ status = 200 =>
             /\ EntryIds(result.flow_order) = ReachFrom(Starts(result), result)
             /\ Starts(result) = {} => result.flow_order = <<>>
             /\ \A k \in DOMAIN result.warnings :
                  Range(result.warnings[k].elements) \subseteq Keys(result.elements)

\* A flow from an emitted element to an id that is no element was met, and
\* another element was reached beside it.
C8_Witness ==
    /\ Success
    /\ Len(result.flow_order) >= 2
    /\ \E i \in DOMAIN result.flows :
         /\ result.flows[i].source \in EntryIds(result.flow_order)
         /\ result.flows[i].target \notin Keys(result.elements)

LexLess(a, b) ==
    \/ Len(a) < Len(b) /\ \A m \in DOMAIN a : a[m] = b[m]
    \/ \E k \in DOMAIN a \cap DOMAIN b :
         a[k] < b[k] /\ \A m \in 1..(k - 1) : a[m] = b[m]

LexLeq(a, b) == a = b \/ LexLess(a, b)

\* Position of a start event among the start events, in extraction order.
StartIdx(res, id) ==
    Cardinality({j \in 1..Index(res.elements, id) : res.elements[j].type = "startEvent"})

\* Where entry i stands in the search: its root, then the positions of the
\* flows of its path among the extracted flows.
KeyOf(res, i) ==
    LET order == res.flow_order
        r == RootEntry(order, i)
    IN  <<IF r = 0 THEN 0 ELSE StartIdx(res, order[r].id)>>
        \o [k \in DOMAIN order[i].path |-> Index(res.flows, order[i].path[k])]

Front(s) == SubSeq(s, 1, Len(s) - 1)

\* C9: flow_order is the depth-first pre-order: roots are the start events in
\* extraction order, an entry comes right before everything first reached
\* through it, what is first reached through an earlier outgoing flow comes
\* before what is first reached through a later one, and an element is reached
\* through the first flow that meets it; conditions play no part.
C9_PreOrder ==
    Success =>
        LET order == result.flow_order
        IN  /\ \A i, j \in DOMAIN order : i < j => LexLess(KeyOf(result, i), KeyOf(result, j))
            /\ \A i \in DOMAIN order :
                 IF order[i].path = <<>>
                 THEN order[i].type = "startEvent"
                 ELSE \E j \in 1..(i - 1) :
                         /\ KeyOf(result, j) = Front(KeyOf(result, i))
                         /\ order[j].id = Source(result, order[i].path[Len(order[i].path)])
                         /\ order[i].id = Target(result, order[i].path[Len(order[i].path)])
            /\ \A s \in Starts(result) :
                 /\ s \in EntryIds(order)
                 /\ LexLeq(KeyOf(result, PosOf(order, s)), <<StartIdx(result, s)>>)
            /\ \A g \in DOMAIN result.flows :
                 (result.flows[g].source \in EntryIds(order)
                    /\ result.flows[g].target \in Keys(result.elements)) =>
                     /\ result.flows[g].target \in EntryIds(order)
                     /\ LexLeq(KeyOf(result, PosOf(order, result.flows[g].target)),
                               KeyOf(result, PosOf(order, result.flows[g].source)) \o <<g>>)

\* An element with two guarded outgoing flows: what the first leads to was
\* emitted, at depth, before the target of the second, which a shorter path
\* also reaches.
C9_Witness ==
    /\ Success
    /\ \E i, j \in DOMAIN result.flow_order :
         LET p == result.flow_order[i].path
             q == result.flow_order[j].path
         IN  /\ i + 1 < j
             /\ p # <<>> /\ Len(q) = Len(p)
             /\ Front(p) = Front(q)
             /\ Get(result.flows, p[Len(p)]).condition # ""
             /\ Len(result.flow_order[i + 1].path) > Len(p)

Kept(d) == {i \in DOMAIN d.procs : Executable(d.procs[i]) \/ HasFlowNode(d.procs[i])}

AnnotationsWithText(d) ==
    {<<i, k>> \in Kept(d) \X (1..4) :
        k \in DOMAIN d.procs[i].annotations /\ d.procs[i].annotations[k].text # ""}

AssociationsOf(d, kind) ==
    {<<i, o, k>> \in Kept(d) \X (1..4) \X (1..4) :
        /\ o \in DOMAIN d.procs[i].owners
        /\ IF kind = "input"
           THEN k \in DOMAIN d.procs[i].owners[o].inputs
                /\ d.procs[i].owners[o].inputs[k].sourceRef # ""
           ELSE k \in DOMAIN d.procs[i].owners[o].outputs
                /\ d.procs[i].owners[o].outputs[k].targetRef # ""}

\* C10: a node is extracted once: one processes entry per kept process, one
\* annotations record per textAnnotation with text, one data_associations
\* record per owning element and qualifying association beneath it.
C10_ExtractedOnce ==
    Success =>
        /\ Len(result.processes) = Cardinality(Kept(doc))
        /\ Len(result.annotations) = Cardinality(AnnotationsWithText(doc))
        /\ Len(result.data_associations)
             = Cardinality(AssociationsOf(doc, "input")) + Cardinality(AssociationsOf(doc, "output"))

====
